---- MODULE Spec2Model ----
(***************************************************************************)
(* Model of src/arbitrage.py: the process-wide exchange registry           *)
(* (get_exchanges), the symbol intersector (get_arbitrage_symbols), the    *)
(* disk-cached price fetcher (get_price_data, get_data_from_exchange,      *)
(* get_symbol_data_from_exchange), merge_dfs_on_column and                 *)
(* get_current_best_price.                                                 *)
(*                                                                         *)
(* Strings are sequences of character codes, so that str.replace, the     *)
(* cache file name and Python's lexicographic sort are computed, not       *)
(* assumed.  A Python call either returns a value or raises: a result is   *)
(* [kind |-> "return", value |-> v] or [kind |-> "raise", exc |-> name].   *)
(* None is the empty tuple and a present optional value x is <<x>>.        *)
(***************************************************************************)
EXTENDS Integers, Sequences, FiniteSets, TLC

VARIABLES
    registry,       \* __exchanges: insertion-ordered dict id -> handle, as a sequence of handles
    cache,          \* the files of the cache directory: path -> pickled series
    call,           \* the call made last: its name and arguments
    result,         \* what that call returned or raised
    returned_keys,  \* the ids seen so far in mappings returned by get_exchanges
    ohlcv_calls     \* the (exchange id, symbol) pairs fetch_ohlcv was called with during the last call

vars == <<registry, cache, call, result, returned_keys, ohlcv_calls>>

-----------------------------------------------------------------------------
(* Bounds of the model *)

MaxNames == 2       \* longest list of exchange names passed to get_exchanges
MaxSymbols == 2     \* longest list of symbols passed to the price fetcher
MaxExchanges == 3   \* longest list of handles passed to get_arbitrage_symbols
MaxTables == 2      \* longest tables / labels list passed to merge_dfs_on_column
MaxDepth == 1       \* deepest side of an order book

-----------------------------------------------------------------------------
(* Python values *)

None == <<>>
Some(x) == <<x>>

Return(v) == [kind |-> "return", value |-> v]
Raise(e) == [kind |-> "raise", exc |-> e]

\* the call of a pure function that has been made and has not returned yet
Pending == [kind |-> "pending"]

Range(s) == {s[i] : i \in 1..Len(s)}

SeqsUpTo(S, n) == UNION {[1..k -> S] : k \in 0..n}

\* character codes of the characters the program itself writes or replaces
Slash == 47
Dash == 45

\* str < str in Python: lexicographic on the character codes, a proper prefix first
RECURSIVE StrLess(_, _)
StrLess(a, b) ==
    IF b = <<>> THEN FALSE
    ELSE IF a = <<>> THEN TRUE
    ELSE IF Head(a) # Head(b) THEN Head(a) < Head(b)
    ELSE StrLess(Tail(a), Tail(b))

\* sorted(list of str): insertion into an ascending list, stable
RECURSIVE Insert(_, _)
Insert(x, s) ==
    IF s = <<>> THEN <<x>>
    ELSE IF StrLess(x, Head(s)) THEN <<x>> \o s
    ELSE <<Head(s)>> \o Insert(x, Tail(s))

RECURSIVE Sorted(_)
Sorted(s) == IF s = <<>> THEN <<>> ELSE Insert(Head(s), Sorted(Tail(s)))

\* the lists that hold exactly the members of a set, each once, in any order:
\* list(set(...)) fixes no order
Listings(S) ==
    {s \in [1..Cardinality(S) -> S] : \A i, j \in 1..Cardinality(S) : s[i] = s[j] => i = j}

-----------------------------------------------------------------------------
(* The connector library: exchanges, their markets *)

binance == <<98, 105, 110>>
kraken == <<107, 114, 107>>
nosuch == <<110, 111>>
mock == <<109>>

BTC_USDT == <<66, 47, 85>>
ETH_USDT == <<69, 47, 85>>
XRP_USDT == <<88, 47, 85>>

Symbols == {BTC_USDT, ETH_USDT, XRP_USDT}

\* ccxt.exchanges: the ids the library knows, in its order
CcxtExchanges == <<binance, kraken>>

\* the symbols each exchange lists once its markets are loaded
Markets(id) ==
    IF id = binance THEN {BTC_USDT, ETH_USDT} ELSE {BTC_USDT, XRP_USDT}

\* a handle: its id and its symbols attribute, None until load_markets has succeeded
Handle(id, symbols) == [id |-> id, symbols |-> symbols]

\* getattr(ccxt, exchange_id)(): a fresh handle, markets not loaded
Construct(id) == Handle(id, None)

\* exchange.load_markets(): symbols becomes the sorted list of the market keys
LoadMarkets(h) == Handle(h.id, Some(Sorted(CHOOSE s \in Listings(Markets(h.id)) : TRUE)))

-----------------------------------------------------------------------------
(* dict operations on the registry *)

Keys(d) == {d[i].id : i \in 1..Len(d)}

\* d[key] = h: replaces the value in place, or appends a new key
DictSet(d, h) ==
    IF h.id \in Keys(d)
    THEN [i \in 1..Len(d) |-> IF d[i].id = h.id THEN h ELSE d[i]]
    ELSE Append(d, h)

-----------------------------------------------------------------------------
(* get_exchanges *)

\* an element of the exchanges argument: an identifier string or a constructed handle
StrName(id) == [type |-> "str", id |-> id]
HandleName(h) == [type |-> "handle", handle |-> h]

Names == {StrName(binance), StrName(kraken), StrName(nosuch), HandleName(Construct(kraken))}

NameId(n) == IF n.type = "str" THEN n.id ELSE n.handle.id

\* what the environment does with one element: "ok", or the step that raises
Outcomes == {"ok", "construct_error", "load_error"}

\* lines 36-46: one iteration of the loop, the try block with its bare except
LoadOne(reg, name, outcome) ==
    IF name.type = "str" /\ (name.id \notin Range(CcxtExchanges) \/ outcome = "construct_error")
    THEN reg
    ELSE LET exchange == IF name.type = "str" THEN Construct(name.id) ELSE name.handle
             registered == DictSet(reg, exchange)
         IN IF outcome = "load_error" THEN registered
            ELSE DictSet(registered, LoadMarkets(exchange))

RECURSIVE LoadAll(_, _, _)
LoadAll(reg, names, outcomes) ==
    IF names = <<>> THEN reg
    ELSE LoadAll(LoadOne(reg, Head(names), Head(outcomes)), Tail(names), Tail(outcomes))

\* exchanges or ccxt.exchanges
Requested(names) ==
    IF names = None \/ names[1] = <<>>
    THEN [i \in 1..Len(CcxtExchanges) |-> StrName(CcxtExchanges[i])]
    ELSE names[1]

\* a registry rebuilt from the requested names on every call
RegistryReloaded(reg, names, outcomes) == LoadAll(<<>>, Requested(names), outcomes)

\* the registry after get_exchanges(names): loading happens only when it is empty
RegistryAfter(reg, names, outcomes) ==
    IF reg = <<>> THEN LoadAll(reg, Requested(names), outcomes) ELSE reg

\* return __exchanges.copy()
RegistryCopy(reg) == reg

NamesArgs == {None} \cup {Some(l) : l \in SeqsUpTo(Names, MaxNames)}

OutcomesFor(names) == [1..Len(Requested(names)) -> Outcomes]

\* every registry get_exchanges(names) can leave, over what the environment does;
\* a registry that is not empty makes the call construct and load nothing, so one
\* answer of the environment stands for all
RegistriesAfter(reg, names) ==
    {RegistryAfter(reg, names, outcomes) :
        outcomes \in IF reg # <<>> THEN {[i \in 1..Len(Requested(names)) |-> "ok"]}
                     ELSE OutcomesFor(names)}

\* get_exchanges(names) leaving the registry reg
GetExchangesCall(names, reg) ==
    /\ registry' = reg
    /\ result' = Return(RegistryCopy(reg))
    /\ returned_keys' = returned_keys \cup Keys(RegistryCopy(reg))
    /\ call' = [op |-> "get_exchanges", names |-> names]
    /\ ohlcv_calls' = <<>>
    /\ UNCHANGED cache

GetExchanges ==
    \E names \in NamesArgs : \E reg \in RegistriesAfter(registry, names) :
        GetExchangesCall(names, reg)

-----------------------------------------------------------------------------
(* get_arbitrage_symbols *)

\* the exchanges a caller can hand over: handles with loaded markets, any set of symbols
LoadedHandles == {Handle(mock, Some(Sorted(l))) : l \in UNION {Listings(S) : S \in SUBSET Symbols}}

HandleLists == SeqsUpTo(LoadedHandles, MaxExchanges)

\* line 65: exchanges is None and get_exchanges() or exchanges.  The value is the
\* caller's list, or the dict get_exchanges returned when that dict is not empty,
\* or None (an empty dict is falsy, and the or then yields the None argument).
Resolved(exchanges, reg) ==
    IF exchanges # None THEN [type |-> "list", items |-> exchanges[1]]
    ELSE IF reg # <<>> THEN [type |-> "dict", items |-> reg]
    ELSE [type |-> "None", items |-> <<>>]

\* [symbol for exchange in a list of handles for symbol in exchange.symbols]
RECURSIVE AllSymbols(_)
AllSymbols(handles) ==
    IF handles = <<>> THEN <<>>
    ELSE Head(handles).symbols[1] \o AllSymbols(Tail(handles))

\* all_symbols.count(symbol)
Count(all_symbols, symbol) == Cardinality({i \in 1..Len(all_symbols) : all_symbols[i] = symbol})

\* the filter with the count compared to 0
ArbitrableAny(unique_symbols, all_symbols) ==
    SelectSeq(unique_symbols, LAMBDA symbol : Count(all_symbols, symbol) > 0)

\* line 73: the symbols of unique_symbols that all_symbols holds more than once
Arbitrable(unique_symbols, all_symbols) ==
    SelectSeq(unique_symbols, LAMBDA symbol : Count(all_symbols, symbol) > 1)

\* lines 66-76 on a list of handles with loaded markets, unique_symbols being one
\* listing of set(all_symbols)
ArbitrageSymbols(handles, unique_symbols) ==
    IF Len(handles) > 1
    THEN Sorted(Arbitrable(unique_symbols, AllSymbols(handles)))
    ELSE unique_symbols

\* every result lines 66-76 can produce for the resolved exchanges: iterating None
\* raises TypeError; iterating a dict yields its keys, strings without a symbols
\* attribute; iterating the symbols of a handle whose markets are not loaded (None)
\* raises TypeError
ArbitrageResults(resolved) ==
    IF resolved.type = "None" THEN {Raise("TypeError")}
    ELSE IF resolved.type = "dict" THEN {Raise("AttributeError")}
    ELSE IF \E i \in 1..Len(resolved.items) : resolved.items[i].symbols = None
    THEN {Raise("TypeError")}
    ELSE {Return(ArbitrageSymbols(resolved.items, unique_symbols)) :
            unique_symbols \in Listings(Range(AllSymbols(resolved.items)))}

\* get_arbitrage_symbols(exchanges), its get_exchanges() leaving the registry reg
ArbitrageCall(exchanges, reg) ==
    /\ registry' = reg
    /\ returned_keys' = IF exchanges = None THEN returned_keys \cup Keys(RegistryCopy(reg))
                        ELSE returned_keys
    /\ result' \in ArbitrageResults(Resolved(exchanges, RegistryCopy(reg)))
    /\ call' = [op |-> "get_arbitrage_symbols", exchanges |-> exchanges]
    /\ ohlcv_calls' = <<>>
    /\ UNCHANGED cache

\* get_arbitrage_symbols(): the exchanges come from the registry
GetArbitrageSymbolsDefault ==
    \E reg \in RegistriesAfter(registry, None) : ArbitrageCall(None, reg)

\* get_arbitrage_symbols(exchanges) on the list of handles of the pending call
GetArbitrageSymbols ==
    /\ call.op = "get_arbitrage_symbols"
    /\ result = Pending
    /\ ArbitrageCall(call.exchanges, registry)

-----------------------------------------------------------------------------
(* The price fetcher: candles, series, the cache directory *)

RequestSymbols == {BTC_USDT, ETH_USDT}

SymbolLists == SeqsUpTo(RequestSymbols, MaxSymbols)

\* the handles a caller passes to the fetcher
ExchangeArgs == {LoadMarkets(Construct(CcxtExchanges[i])) : i \in 1..Len(CcxtExchanges)}

\* pd.to_datetime(..., unit='ms'): epoch milliseconds to a calendar day and the time in it
MsPerDay == 86400000

ToDatetime(ms) == [day |-> ms \div MsPerDay, ms |-> ms % MsPerDay]

\* a candle [timestamp, open, high, low, close, volume]
Candle(timestamp, close) == <<timestamp, 100, 110, 90, close, 10>>

\* what fetch_ohlcv can return: two daily candles, or two candles of the same timestamp
Feeds ==
    { <<Candle(0, 105), Candle(MsPerDay, 110)>>,
      <<Candle(0, 105), Candle(0, 110)>> }

\* what fetch_ohlcv can raise: ccxt's NotSupported, AuthenticationError, ExchangeError
FetchErrors == {"NotSupported", "AuthenticationError", "ExchangeError"}

FetchOutcomes == {Return(f) : f \in Feeds} \cup {Raise(e) : e \in FetchErrors}

\* dict[key] = value on a dict kept as a list of <<key, value>> in insertion order
DictPut(d, key, value) ==
    IF \E i \in 1..Len(d) : d[i][1] = key
    THEN [i \in 1..Len(d) |-> IF d[i][1] = key THEN <<key, value>> ELSE d[i]]
    ELSE Append(d, <<key, value>>)

\* line 107: dict([(candle[0], candle[4]) for candle in ohlcv])
RECURSIVE CloseByTimestamp(_, _)
CloseByTimestamp(d, ohlcv) ==
    IF ohlcv = <<>> THEN d
    ELSE CloseByTimestamp(DictPut(d, Head(ohlcv)[1], Head(ohlcv)[5]), Tail(ohlcv))

\* line 108: pd.Series(list(d.values()), index=pd.to_datetime(list(d.keys()), unit='ms'))
SeriesOf(ohlcv) ==
    LET d == CloseByTimestamp(<<>>, ohlcv) IN
    [index |-> [i \in 1..Len(d) |-> ToDatetime(d[i][1])],
     values |-> [i \in 1..Len(d) |-> d[i][2]]]

\* str.replace(old, new) for one-character strings
Replace(s, old, new) == [i \in 1..Len(s) |-> IF s[i] = old THEN new ELSE s[i]]

\* env['cache_dir'] and the suffix ".pkl"
CacheDir == <<100>>
Pkl == <<46, 112, 107, 108>>

\* line 98: cache_dir + '/' + '{}-{}.pkl'.format(exchange.id, symbol).replace('/', '-')
CachePath(exchange, symbol) ==
    CacheDir \o <<Slash>> \o Replace(exchange.id \o <<Dash>> \o symbol \o Pkl, Slash, Dash)

\* to_pickle and pickle.load: the file holds the series
Pickle(series) == [pickled |-> series]
Unpickle(file) == file.pickled

\* the cache directory after a file is written at path
WriteFile(files, path, file) ==
    [p \in DOMAIN files \cup {path} |-> IF p = path THEN file ELSE files[p]]

\* a fetch that returns the series without writing the file
PersistNothing(files, path, series) == files

\* lines 107-109: the series of the candles, written to the cache path
Persist(files, path, series) == WriteFile(files, path, Pickle(series))

\* lines 100-111 when fetch_ohlcv answers with outcome: open() succeeds exactly when
\* the file exists; if it does not, fetch_ohlcv is called inside the except block, and
\* what it raises leaves the function
SymbolDataWith(files, symbol, exchange, outcome) ==
    LET path == CachePath(exchange, symbol) IN
    IF path \in DOMAIN files
    THEN [cache |-> files, fetched |-> <<>>, result |-> Return(Unpickle(files[path]))]
    ELSE IF outcome.kind = "raise"
    THEN [cache |-> files, fetched |-> << <<exchange.id, symbol>> >>, result |-> outcome]
    ELSE LET df == SeriesOf(outcome.value) IN
         [cache |-> Persist(files, path, df),
          fetched |-> << <<exchange.id, symbol>> >>,
          result |-> Return(df)]

\* every way get_symbol_data_from_exchange(symbol, exchange, env) can end
SymbolData(files, symbol, exchange) ==
    {SymbolDataWith(files, symbol, exchange, outcome) : outcome \in FetchOutcomes}

GetSymbolDataFromExchange ==
    \E symbol \in RequestSymbols : \E exchange \in ExchangeArgs :
    \E r \in SymbolData(cache, symbol, exchange) :
        /\ cache' = r.cache
        /\ result' = r.result
        /\ ohlcv_calls' = r.fetched
        /\ call' = [op |-> "get_symbol_data_from_exchange",
                    symbol |-> symbol, exchange |-> exchange.id]
        /\ UNCHANGED <<registry, returned_keys>>

-----------------------------------------------------------------------------
(* get_data_from_exchange *)

\* pd.DataFrame(series): one column, labelled 0 because the series has no name;
\* a cell is <<value>>, or None where it is unset
DataFrame(series) ==
    [index |-> series.index,
     columns |-> <<0>>,
     data |-> << [i \in 1..Len(series.values) |-> Some(series.values[i])] >>]

\* line 91: df and df.join(df_symbol, how='outer') or pd.DataFrame(df_symbol).
\* None is falsy, so the first series becomes the frame; the truth value of a
\* DataFrame is a ValueError in pandas, so join is never reached.
JoinOrFrame(df, df_symbol) ==
    IF df = None THEN Return(Some(DataFrame(df_symbol))) ELSE Raise("ValueError")

\* one iteration of the loop of lines 89-91, from a state of the loop
SymbolStep(st, symbol, exchange) ==
    { LET joined == JoinOrFrame(st.df, r.result.value) IN
      [cache |-> r.cache,
       fetched |-> st.fetched \o r.fetched,
       df |-> IF r.result.kind = "return" /\ joined.kind = "return" THEN joined.value ELSE st.df,
       raised |-> IF r.result.kind = "raise" THEN Some(r.result.exc)
                  ELSE IF joined.kind = "raise" THEN Some(joined.exc)
                  ELSE None]
      : r \in SymbolData(st.cache, symbol, exchange) }

\* the loop of lines 89-91 over symbols; an exception ends it
RECURSIVE SymbolLoop(_, _, _)
SymbolLoop(sts, symbols, exchange) ==
    IF symbols = <<>> THEN sts
    ELSE SymbolLoop(
            UNION {IF st.raised # None THEN {st} ELSE SymbolStep(st, Head(symbols), exchange)
                   : st \in sts},
            Tail(symbols), exchange)

\* every way get_data_from_exchange(symbols, exchange, env) can end
DataFromExchange(files, fetched, symbols, exchange) ==
    SymbolLoop({[cache |-> files, fetched |-> fetched, df |-> None, raised |-> None]},
               symbols, exchange)

Outcome(st, value) == IF st.raised # None THEN Raise(st.raised[1]) ELSE Return(value)

GetDataFromExchange ==
    \E symbols \in SymbolLists : \E exchange \in ExchangeArgs :
    \E st \in DataFromExchange(cache, <<>>, symbols, exchange) :
        /\ cache' = st.cache
        /\ result' = Outcome(st, st.df)
        /\ ohlcv_calls' = st.fetched
        /\ call' = [op |-> "get_data_from_exchange",
                    symbols |-> symbols, exchange |-> exchange.id]
        /\ UNCHANGED <<registry, returned_keys>>

-----------------------------------------------------------------------------
(* get_price_data *)

\* line 84: the list comprehension over exchanges.values(); an exception ends it
RECURSIVE ExchangeLoop(_, _, _)
ExchangeLoop(sts, handles, symbols) ==
    IF handles = <<>> THEN sts
    ELSE ExchangeLoop(
            UNION {IF st.raised # None THEN {st}
                   ELSE {[cache |-> d.cache,
                          fetched |-> d.fetched,
                          table |-> IF d.raised = None
                                    THEN Append(st.table, <<Head(handles).id, d.df>>)
                                    ELSE st.table,
                          raised |-> d.raised]
                         : d \in DataFromExchange(st.cache, st.fetched, symbols, Head(handles))}
                   : st \in sts},
            Tail(handles), symbols)

\* every way line 84 can end for the mapping get_exchanges returned
PriceData(files, exchanges, symbols) ==
    ExchangeLoop({[cache |-> files, fetched |-> <<>>, table |-> <<>>, raised |-> None]},
                 exchanges, symbols)

\* get_price_data(symbols, names, env), its get_exchanges(names) leaving the registry reg
PriceDataCall(symbols, reg) ==
    \E st \in PriceData(cache, RegistryCopy(reg), symbols) :
        /\ registry' = reg
        /\ returned_keys' = returned_keys \cup Keys(RegistryCopy(reg))
        /\ cache' = st.cache
        /\ result' = Outcome(st, st.table)
        /\ ohlcv_calls' = st.fetched
        /\ call' = [op |-> "get_price_data", symbols |-> symbols]

GetPriceData ==
    \E reg \in UNION {RegistriesAfter(registry, names) : names \in NamesArgs} :
    \E symbols \in SymbolLists :
        PriceDataCall(symbols, reg)

-----------------------------------------------------------------------------
(* merge_dfs_on_column *)

\* tables: a mapping from column name to column; the last one has no close column
Tables ==
    { [close |-> <<105, 110>>, volume |-> <<10, 12>>],
      [close |-> <<104, 111>>, volume |-> <<11, 13>>],
      [open |-> <<100, 105>>] }

Labels == {"A", "B"}

Columns == {"close"}

\* lines 116-120 from index on: dataframes[index][col] is evaluated first and raises
\* KeyError without the column, then labels[index] raises IndexError past the end
\* of labels; a label met again replaces its column
RECURSIVE MergeFrom(_, _, _, _, _)
MergeFrom(series_dict, index, dataframes, labels, col) ==
    IF index > Len(dataframes) THEN Return(series_dict)
    ELSE IF col \notin DOMAIN dataframes[index] THEN Raise("KeyError")
    ELSE IF index > Len(labels) THEN Raise("IndexError")
    ELSE MergeFrom(DictPut(series_dict, labels[index], dataframes[index][col]),
                   index + 1, dataframes, labels, col)

\* pd.DataFrame(series_dict): one column per key, in insertion order
FrameOfDict(series_dict) ==
    [columns |-> [i \in 1..Len(series_dict) |-> series_dict[i][1]],
     data |-> [i \in 1..Len(series_dict) |-> series_dict[i][2]]]

merge_dfs_on_column(dataframes, labels, col) ==
    LET merged == MergeFrom(<<>>, 1, dataframes, labels, col) IN
    IF merged.kind = "raise" THEN merged ELSE Return(FrameOfDict(merged.value))

MergeCalls ==
    {[op |-> "merge_dfs_on_column", dataframes |-> d, labels |-> l, col |-> c] :
        d \in SeqsUpTo(Tables, MaxTables), l \in SeqsUpTo(Labels, MaxTables), c \in Columns}

MergeDfsOnColumn ==
    /\ call.op = "merge_dfs_on_column"
    /\ result = Pending
    /\ result' = merge_dfs_on_column(call.dataframes, call.labels, call.col)
    /\ UNCHANGED <<registry, cache, call, returned_keys, ohlcv_calls>>

-----------------------------------------------------------------------------
(* get_current_best_price *)

Prices == {100, 101}

\* one side of an order book: price levels [price, amount], best first
Sides == SeqsUpTo({<<p, 1>> : p \in Prices}, MaxDepth)

OrderBooks == [bids : Sides, asks : Sides]

\* the truth value of a price or None
Truthy(x) == x # None /\ x[1] # 0

\* lines 54-58 for one order book
BestPrice(orderbook) ==
    LET bid == IF Len(orderbook.bids) > 0 THEN Some(orderbook.bids[1][1]) ELSE None
        ask == IF Len(orderbook.asks) > 0 THEN Some(orderbook.asks[1][1]) ELSE None
    IN  IF Truthy(ask) /\ Truthy(ask)
        THEN IF bid = None THEN Raise("TypeError")
             ELSE Return([bid |-> bid, ask |-> ask, spread |-> Some(ask[1] - bid[1])])
        ELSE Return([bid |-> bid, ask |-> ask, spread |-> None])

\* the loop of lines 53-59 over symbols, books giving what fetch_order_book returns
RECURSIVE BestPrices(_, _, _)
BestPrices(res, symbols, books) ==
    IF symbols = <<>> THEN Return(res)
    ELSE LET sym == BestPrice(books[Head(symbols)]) IN
         IF sym.kind = "raise" THEN sym
         ELSE BestPrices(DictPut(res, Head(symbols), sym.value), Tail(symbols), books)

get_current_best_price(books, symbols) == BestPrices(<<>>, symbols, books)

BestPriceCalls ==
    {[op |-> "get_current_best_price", books |-> b, symbols |-> l] :
        b \in [RequestSymbols -> OrderBooks], l \in SymbolLists}

GetCurrentBestPrice ==
    /\ call.op = "get_current_best_price"
    /\ result = Pending
    /\ result' = get_current_best_price(call.books, call.symbols)
    /\ UNCHANGED <<registry, cache, call, returned_keys, ohlcv_calls>>

-----------------------------------------------------------------------------
(* Specifications *)

\* the state after the module is loaded: line 28, and an empty cache directory
Init ==
    /\ registry = <<>>
    /\ cache = <<>>
    /\ call = [op |-> "none"]
    /\ result = Return(None)
    /\ returned_keys = {}
    /\ ohlcv_calls = <<>>

\* the same state, with one call of a pure function made
InitCall(calls) ==
    /\ registry = <<>>
    /\ cache = <<>>
    /\ call \in calls
    /\ result = Pending
    /\ returned_keys = {}
    /\ ohlcv_calls = <<>>

ArbitrageCalls == {[op |-> "get_arbitrage_symbols", exchanges |-> Some(l)] : l \in HandleLists}

Next ==
    \/ GetExchanges
    \/ GetArbitrageSymbolsDefault
    \/ GetPriceData
    \/ GetDataFromExchange
    \/ GetSymbolDataFromExchange

Spec == Init /\ [][Next]_vars

\* the registry and the calls that go through it
SpecRegistry == Init /\ [][GetExchanges \/ GetArbitrageSymbolsDefault \/ GetPriceData]_vars

\* the fetcher called on handles directly
SpecPrice == Init /\ [][GetSymbolDataFromExchange \/ GetDataFromExchange]_vars

SpecArbitrage == InitCall(ArbitrageCalls) /\ [][GetArbitrageSymbols]_vars

SpecMerge == InitCall(MergeCalls) /\ [][MergeDfsOnColumn]_vars

SpecBestPrice == InitCall(BestPriceCalls) /\ [][GetCurrentBestPrice]_vars

-----------------------------------------------------------------------------
(* Properties *)

\* the environment lets the construction and the load_markets of a name succeed
Succeeds(name, outcome) ==
    outcome = "ok" /\ (name.type = "str" => name.id \in Range(CcxtExchanges))

\* the value of key in a dict kept as a list of <<key, value>>
Lookup(d, key) == (CHOOSE i \in 1..Len(d) : d[i][1] = key)

HandleOf(id) == CHOOSE exchange \in ExchangeArgs : exchange.id = id

\* C1: a call get_exchanges(names) leaves in the mapping it returns the id of
\* every named exchange whose construction and load_markets succeed, whatever
\* the registry held before the call.
C1_LoadsEveryRequested ==
    [][call'.op = "get_exchanges" =>
        \A outcomes \in OutcomesFor(call'.names) :
            registry' = RegistryAfter(registry, call'.names, outcomes) =>
                /\ result'.kind = "return"
                /\ \A i \in 1..Len(Requested(call'.names)) :
                      Succeeds(Requested(call'.names)[i], outcomes[i]) =>
                          NameId(Requested(call'.names)[i]) \in Keys(result'.value)
      ]_vars

\* C2: get_exchanges surfaces no error, and an exchange that was not registered
\* before the call and whose construction or load_markets fails each time it is
\* named is absent from the registry and from the returned mapping afterwards,
\* while the names that succeed are registered.
C2_FailedExchangeSkipped ==
    [][call'.op = "get_exchanges" =>
        \A outcomes \in OutcomesFor(call'.names) :
            registry' = RegistryAfter(registry, call'.names, outcomes) =>
                LET requested == Requested(call'.names) IN
                /\ result'.kind = "return"
                /\ \A i \in 1..Len(requested) :
                      ( /\ NameId(requested[i]) \notin Keys(registry)
                        /\ \A j \in 1..Len(requested) :
                              NameId(requested[j]) = NameId(requested[i])
                                  => ~Succeeds(requested[j], outcomes[j]) )
                      => /\ NameId(requested[i]) \notin Keys(registry')
                         /\ NameId(requested[i]) \notin Keys(result'.value)
                /\ registry = <<>> =>
                      \A i \in 1..Len(requested) :
                          Succeeds(requested[i], outcomes[i])
                              => NameId(requested[i]) \in Keys(registry')
      ]_vars

\* C3: the registry only grows: the mapping get_exchanges returns is the whole
\* registry, and it holds every key of every mapping returned before, by a
\* direct call or inside get_price_data and get_arbitrage_symbols.
C3_RegistryGrowsOnly ==
    /\ returned_keys \subseteq Keys(registry)
    /\ call.op = "get_exchanges" =>
          /\ result = Return(registry)
          /\ returned_keys \subseteq Keys(result.value)

\* C3 witness: a call naming only an unknown exchange returns the two exchanges
\* loaded by an earlier call
C3_Witness ==
    /\ call.op = "get_exchanges"
    /\ call.names = Some(<<StrName(nosuch)>>)
    /\ result.kind = "return"
    /\ Keys(result.value) = {binance, kraken}
    /\ returned_keys = {binance, kraken}

\* the symbols listed by at least two of the exchanges of a list
OnTwoExchanges(exchanges) ==
    {symbol \in Symbols :
        \E i, j \in 1..Len(exchanges) :
            /\ i # j
            /\ symbol \in Range(exchanges[i].symbols[1])
            /\ symbol \in Range(exchanges[j].symbols[1])}

\* C4: for two or more exchanges get_arbitrage_symbols returns the symbols
\* listed by at least two of them, each once, in ascending lexicographic order.
C4_ArbitrageSymbolsSorted ==
    ( /\ call.op = "get_arbitrage_symbols"
      /\ result # Pending
      /\ Len(call.exchanges[1]) >= 2 )
    => /\ result.kind = "return"
       /\ Range(result.value) = OnTwoExchanges(call.exchanges[1])
       /\ \A i, j \in 1..Len(result.value) :
             i < j => StrLess(result.value[i], result.value[j])

\* C4 witness: A = {BTC/USDT, ETH/USDT}, B = {BTC/USDT, XRP/USDT} gives [BTC/USDT]
C4_Witness ==
    /\ call.op = "get_arbitrage_symbols"
    /\ call.exchanges = Some(<<Handle(mock, Some(<<BTC_USDT, ETH_USDT>>)),
                               Handle(mock, Some(<<BTC_USDT, XRP_USDT>>))>>)
    /\ result = Return(<<BTC_USDT>>)

\* C5: get_arbitrage_symbols() returns what get_arbitrage_symbols(handles)
\* returns for the list of handles the registry holds.
C5_DefaultUsesRegistryHandles ==
    (call.op = "get_arbitrage_symbols" /\ call.exchanges = None)
    => result \in ArbitrageResults(Resolved(Some(registry), registry))

\* C6: no error raised by fetch_ohlcv (unsupported, unauthenticated, rejected
\* by the exchange) leaves get_symbol_data_from_exchange or
\* get_data_from_exchange: the call returns.
C6_RejectedFetchSwallowed ==
    call.op \in {"get_symbol_data_from_exchange", "get_data_from_exchange"}
    => ~(result.kind = "raise" /\ result.exc \in FetchErrors)

\* C7: a fetch of (exchange, symbol) whose cache file exists calls fetch_ohlcv
\* not at all and returns the series the file holds; a fetch whose file does not
\* exist calls fetch_ohlcv once and, when it returns, has written the series it
\* returns at the cache path; a file once written is never changed.  So a second
\* fetch of a pair returns the series of the first without a second fetch_ohlcv.
C7_CacheRoundTrip ==
    [][ /\ \A path \in DOMAIN cache : path \in DOMAIN cache' /\ cache'[path] = cache[path]
        /\ call'.op = "get_symbol_data_from_exchange" =>
              LET path == CachePath(HandleOf(call'.exchange), call'.symbol) IN
              /\ path \in DOMAIN cache =>
                    /\ ohlcv_calls' = <<>>
                    /\ result' = Return(Unpickle(cache[path]))
                    /\ cache' = cache
              /\ path \notin DOMAIN cache =>
                    /\ ohlcv_calls' = << <<call'.exchange, call'.symbol>> >>
                    /\ result'.kind = "return" =>
                          /\ path \in DOMAIN cache'
                          /\ Unpickle(cache'[path]) = result'.value
              /\ (call.op = "get_symbol_data_from_exchange" /\ call' = call
                    /\ result.kind = "return") =>
                    /\ result' = result
                    /\ ohlcv_calls' = <<>>
      ]_vars

\* C7 witness: a fetch served from the cache file, without a fetch_ohlcv call
C7_Witness ==
    /\ call.op = "get_symbol_data_from_exchange"
    /\ ohlcv_calls = <<>>
    /\ CachePath(HandleOf(call.exchange), call.symbol) \in DOMAIN cache
    /\ result = Return(Unpickle(cache[CachePath(HandleOf(call.exchange), call.symbol)]))

\* the cell of a series at a timestamp: <<value>>, or None when the series lacks it
Cell(series, timestamp) ==
    IF \E k \in 1..Len(series.index) : series.index[k] = timestamp
    THEN Some(series.values[CHOOSE k \in 1..Len(series.index) : series.index[k] = timestamp])
    ELSE None

\* C8: for N >= 1 distinct symbols whose fetches are not rejected, get_data_from_exchange
\* returns one table: its rows are the union of the timestamps of the N series,
\* it has one column per requested symbol, and a cell holds the value of that
\* symbol's series at the row's timestamp or is unset.
C8_OuterJoinOfAllSymbols ==
    ( /\ call.op = "get_data_from_exchange"
      /\ Len(call.symbols) >= 1
      /\ \A i, j \in 1..Len(call.symbols) : call.symbols[i] = call.symbols[j] => i = j
      /\ ~(result.kind = "raise" /\ result.exc \in FetchErrors) )
    => /\ result.kind = "return"
       /\ result.value # None
       /\ LET frame == result.value[1]
              series(i) == Unpickle(cache[CachePath(HandleOf(call.exchange), call.symbols[i])])
          IN  /\ Len(frame.columns) = Len(call.symbols)
              /\ Range(frame.index) =
                    UNION {Range(series(i).index) : i \in 1..Len(call.symbols)}
              /\ \A i \in 1..Len(call.symbols) : \A r \in 1..Len(frame.index) :
                    frame.data[i][r] = Cell(series(i), frame.index[r])

\* C9: merge_dfs_on_column raises when the numbers of tables and labels differ;
\* with as many tables as labels (the labels distinct, each table holding the
\* column) it returns one column per label, the named column of the table at
\* the same position.
C9_MismatchRaises ==
    (call.op = "merge_dfs_on_column" /\ result # Pending)
    => IF Len(call.dataframes) # Len(call.labels)
       THEN result.kind = "raise"
       ELSE ( /\ \A i \in 1..Len(call.dataframes) : call.col \in DOMAIN call.dataframes[i]
              /\ \A i, j \in 1..Len(call.labels) : call.labels[i] = call.labels[j] => i = j )
            => /\ result.kind = "return"
               /\ result.value.columns = call.labels
               /\ \A i \in 1..Len(call.labels) :
                     result.value.data[i] = call.dataframes[i][call.col]

\* C10: get_current_best_price returns for every order book; for each symbol bid
\* is the first bid price or None, ask the first ask price or None, and spread
\* is ask - bid when both are present and None otherwise.
C10_OneSidedBookHandled ==
    (call.op = "get_current_best_price" /\ result # Pending)
    => /\ result.kind = "return"
       /\ \A i \in 1..Len(call.symbols) :
             LET orderbook == call.books[call.symbols[i]]
                 sym == result.value[Lookup(result.value, call.symbols[i])][2]
                 bid == IF orderbook.bids = <<>> THEN None ELSE Some(orderbook.bids[1][1])
                 ask == IF orderbook.asks = <<>> THEN None ELSE Some(orderbook.asks[1][1])
             IN  /\ sym.bid = bid
                 /\ sym.ask = ask
                 /\ sym.spread = IF bid # None /\ ask # None THEN Some(ask[1] - bid[1]) ELSE None

====
